---- MODULE Spec2Model ----
(***************************************************************************)
(* A model of porch/repository/pkg/git/testing.go: the mock git server     *)
(* (GitServer) speaking "just enough" of the git smart HTTP protocol, its  *)
(* object walker (objectWalker) and its packet-line writer.                *)
(*                                                                         *)
(* Strings that the code parses or formats are sequences of one-character  *)
(* strings; a hash is a sequence of HashSize bytes (0..255).  The object   *)
(* that a hash denotes is fixed by content addressing (Universe); the      *)
(* Store holds a set of those objects and a map of references.             *)
(***************************************************************************)
EXTENDS Integers, Sequences, FiniteSets, TLC

(***************************************************************************)
(* Bounds of the model.                                                    *)
(***************************************************************************)
\* How many objects of the Universe a Store of SpecWalk may lack.
MaxMissing == 1
\* How many ref-update lines a receive-pack request may hold.
MaxLines == 2
\* How many negotiation lines an upload-pack request may hold.
MaxNegotiation == 2

(***************************************************************************)
(* Characters and strings.                                                 *)
(***************************************************************************)
NUL == "NUL"
LF == "\n"
SP == " "

HEAD == <<"H", "E", "A", "D">>
Main == <<"r", "e", "f", "s", "/", "h", "e", "a", "d", "s", "/", "m", "a", "i", "n">>
Master == <<"r", "e", "f", "s", "/", "h", "e", "a", "d", "s", "/", "m", "a", "s", "t", "e", "r">>
TagV1 == <<"r", "e", "f", "s", "/", "t", "a", "g", "s", "/", "v", "1">>
RemoteMain == <<"r", "e", "f", "s", "/", "r", "e", "m", "o", "t", "e", "s", "/", "o", "r", "i", "g", "i", "n", "/", "m", "a", "i", "n">>

RemotePrefix == <<"r", "e", "f", "s", "/", "r", "e", "m", "o", "t", "e", "s", "/">>
SymrefCap == <<"s", "y", "m", "r", "e", "f", "=", "H", "E", "A", "D", ":", "r", "e", "f", "s", "/", "h", "e", "a", "d", "s", "/", "m", "a", "i", "n">>
NAK == <<"N", "A", "K">>
UnpackOk == <<"u", "n", "p", "a", "c", "k", " ", "o", "k">>
UnpackErr == <<"u", "n", "p", "a", "c", "k", " ", "e", "r", "r", "o", "r", " ", "p", "a", "r", "s", "i", "n", "g", " ", "p", "a", "c", "k", "f", "i", "l", "e">>
ServicePrefix == <<"#", " ", "s", "e", "r", "v", "i", "c", "e", "=">>
UploadPackService == <<"g", "i", "t", "-", "u", "p", "l", "o", "a", "d", "-", "p", "a", "c", "k">>
ReceivePackService == <<"g", "i", "t", "-", "r", "e", "c", "e", "i", "v", "e", "-", "p", "a", "c", "k">>
\* A capability a client announces on its first ref-update line.
ReportStatus == <<"r", "e", "p", "o", "r", "t", "-", "s", "t", "a", "t", "u", "s">>

\* The sequences over S that hold every element of S exactly once.
Perms(S) ==
    {f \in [1..Cardinality(S) -> S] : \A i, j \in DOMAIN f : f[i] = f[j] => i = j}

\* The elements of a sequence.
Range(s) == {s[i] : i \in DOMAIN s}

(***************************************************************************)
(* Hashes (GitHash = plumbing.Hash, 20 raw bytes).                         *)
(***************************************************************************)
HashSize == 20

\* The hash whose bytes are all b.
H(b) == [i \in 1..HashSize |-> b]

ZeroHash == H(0)

(***************************************************************************)
(* Formatting and parsing (encoding/hex, strings, fmt).                    *)
(***************************************************************************)
HexChars == <<"0", "1", "2", "3", "4", "5", "6", "7", "8", "9", "a", "b", "c", "d", "e", "f">>

UpperHexChars == <<"0", "1", "2", "3", "4", "5", "6", "7", "8", "9", "A", "B", "C", "D", "E", "F">>

\* The value of a hex digit of either case, -1 for any other character.
fromHexChar(c) ==
    IF \E i \in 1..16 : HexChars[i] = c
    THEN (CHOOSE i \in 1..16 : HexChars[i] = c) - 1
    ELSE IF \E i \in 1..16 : UpperHexChars[i] = c
         THEN (CHOOSE i \in 1..16 : UpperHexChars[i] = c) - 1
         ELSE -1

\* Hash.String(): two lowercase hex digits per byte.
HashString(h) ==
    [i \in 1..(2 * Len(h)) |->
        IF i % 2 = 1 THEN HexChars[(h[(i + 1) \div 2] \div 16) + 1]
        ELSE HexChars[(h[i \div 2] % 16) + 1]]

\* hex.DecodeString: an error for a character that is no hex digit and for an
\* odd length, the bytes otherwise.
DecodeString(s) ==
    IF (\E i \in DOMAIN s : fromHexChar(s[i]) < 0) \/ Len(s) % 2 = 1
    THEN [err |-> "hex", bytes |-> <<>>]
    ELSE [err |-> "nil",
          bytes |-> [i \in 1..(Len(s) \div 2) |->
                        fromHexChar(s[2 * i - 1]) * 16 + fromHexChar(s[2 * i])]]

\* The index of the first c in s, 0 when there is none.
Index(s, c) ==
    IF \E i \in DOMAIN s : s[i] = c
    THEN CHOOSE i \in DOMAIN s : s[i] = c /\ \A j \in 1..(i - 1) : s[j] # c
    ELSE 0

\* strings.SplitN(s, sep, n) for n > 0: at most n fields, the last one the
\* unsplit remainder.
RECURSIVE SplitN(_, _, _)
SplitN(s, sep, n) ==
    LET i == Index(s, sep)
    IN  IF n = 1 \/ i = 0 THEN <<s>>
        ELSE <<SubSeq(s, 1, i - 1)>> \o SplitN(SubSeq(s, i + 1, Len(s)), sep, n - 1)

\* strings.Split(s, sep): every field.
Split(s, sep) == SplitN(s, sep, Len(s) + 1)

\* strings.Join(elems, sep).
RECURSIVE Join(_, _)
Join(elems, sep) ==
    IF elems = <<>> THEN <<>>
    ELSE IF Len(elems) = 1 THEN elems[1]
         ELSE elems[1] \o <<sep>> \o Join(Tail(elems), sep)

\* strings.HasPrefix.
HasPrefix(s, p) == Len(s) >= Len(p) /\ SubSeq(s, 1, Len(p)) = p

\* The lowercase hex digits of n, without leading zeros.
RECURSIVE Hex(_)
Hex(n) == IF n < 16 THEN <<HexChars[n + 1]>> ELSE Hex(n \div 16) \o <<HexChars[(n % 16) + 1]>>

\* fmt.Sprintf("%04x", n): zero-padded to a width of at least four.
Sprintf04x(n) ==
    LET d == Hex(n)
    IN  IF Len(d) >= 4 THEN d ELSE [i \in 1..(4 - Len(d)) |-> "0"] \o d

\* The value of a string of hex digits, -1 when a character is no hex digit.
RECURSIVE ParseHex(_)
ParseHex(s) ==
    IF s = <<>> THEN 0
    ELSE LET d == fromHexChar(s[Len(s)])
             r == ParseHex(SubSeq(s, 1, Len(s) - 1))
         IN  IF d < 0 \/ r < 0 THEN -1 ELSE 16 * r + d

\* pktline.Scanner.Scan on the bytes b: the four digits of the length are
\* read, 0000 is the flush packet (an empty payload), a length that is no hex
\* number, is at most 4 or over MaxPktLen is an error, and so is a payload cut
\* short; the payload is the length less 4 bytes, as they are.
MaxPktLen == 65520

Scan(b) ==
    LET n == IF Len(b) < 4 THEN -1 ELSE ParseHex(SubSeq(b, 1, 4))
    IN  IF b = <<>> THEN [ok |-> FALSE, err |-> "EOF", bytes |-> <<>>, rest |-> <<>>]
        ELSE IF n = 0 THEN [ok |-> TRUE, err |-> "nil", bytes |-> <<>>, rest |-> SubSeq(b, 5, Len(b))]
        ELSE IF n <= 4 \/ n > MaxPktLen \/ Len(b) < n
             THEN [ok |-> FALSE, err |-> "invalid pkt-len", bytes |-> <<>>, rest |-> <<>>]
        ELSE [ok |-> TRUE, err |-> "nil", bytes |-> SubSeq(b, 5, n), rest |-> SubSeq(b, n + 1, Len(b))]

\* The payloads of Scan called until it fails or the bytes end.
RECURSIVE ScanAll(_)
ScanAll(b) ==
    LET f == Scan(b)
    IN  IF ~f.ok THEN <<>> ELSE <<f.bytes>> \o ScanAll(f.rest)

\* parseHash without the check of the length.
parseHashAnyLength(s) ==
    LET d == DecodeString(s)
    IN  IF d.err # "nil" THEN [err |-> "was not hex", hash |-> ZeroHash]
        ELSE [err |-> "nil", hash |-> d.bytes]

\* parseHash: a GitHash from the hex string the client sent.
parseHash(s) ==
    LET d == DecodeString(s)
    IN  IF d.err # "nil" THEN [err |-> "was not hex", hash |-> ZeroHash]
        ELSE IF Len(d.bytes) # HashSize THEN [err |-> "was wrong length", hash |-> ZeroHash]
             ELSE [err |-> "nil", hash |-> d.bytes]

\* ReferenceName.IsRemote.
IsRemote(name) == HasPrefix(name, RemotePrefix)

(***************************************************************************)
(* Objects.  A commit has a tree and parents, a tree has entries           *)
(* (mode, hash), a tag has a target, a blob has no children.               *)
(***************************************************************************)
Regular == "Regular"
Executable == "Executable"
Symlink == "Symlink"
Submodule == "Submodule"
Dir == "Dir"
\* filemode.Deprecated (0100664): a mode the walker's switch does not name.
Deprecated == "Deprecated"

Blob == [type |-> "blob", tree |-> ZeroHash, parents |-> <<>>, entries |-> <<>>, target |-> ZeroHash]
Commit(t, ps) == [type |-> "commit", tree |-> t, parents |-> ps, entries |-> <<>>, target |-> ZeroHash]
Tree(es) == [type |-> "tree", tree |-> ZeroHash, parents |-> <<>>, entries |-> es, target |-> ZeroHash]
Tag(t) == [type |-> "tag", tree |-> ZeroHash, parents |-> <<>>, entries |-> <<>>, target |-> t]
Entry(m, h) == [mode |-> m, hash |-> h]

\* The objects of the model, by hash.  B1, T1, C1 are what initRepo stores.
B1 == H(1)
T1 == H(2)
C1 == H(3)
C2 == H(171)
B2 == H(5)
T2 == H(6)
C3 == H(7)
G1 == H(8)
G2 == H(9)
C4 == H(10)
T3 == H(11)
C5 == H(12)
\* A commit of another repository: no Store of the model holds it.
S1 == H(13)

Universe ==
    (B1 :> Blob)
    @@ (T1 :> Tree(<<Entry(Regular, B1)>>))
    @@ (C1 :> Commit(T1, <<>>))
    \* a second commit on the same tree
    @@ (C2 :> Commit(T1, <<C1>>))
    @@ (B2 :> Blob)
    \* a subdirectory, a submodule of another repository, a submodule that
    \* names a commit of this repository, an executable and a symlink
    @@ (T2 :> Tree(<<Entry(Dir, T1), Entry(Submodule, S1), Entry(Submodule, C1),
                     Entry(Executable, B2), Entry(Symlink, B1)>>))
    \* a merge
    @@ (C3 :> Commit(T2, <<C2, C1>>))
    \* an annotated tag of a commit, and one of a blob
    @@ (G1 :> Tag(C3))
    @@ (G2 :> Tag(B2))
    \* a parent link that loops
    @@ (C4 :> Commit(T1, <<C4>>))
    \* a tree as a client may push it: a regular entry that names a tree, a
    \* directory entry that names the same tree, an entry of unlisted mode
    @@ (T3 :> Tree(<<Entry(Regular, T1), Entry(Dir, T1), Entry(Deprecated, T1)>>))
    @@ (C5 :> Commit(T3, <<>>))

AllObjects == DOMAIN Universe

Object(h) == Universe[h]

(***************************************************************************)
(* References.                                                             *)
(***************************************************************************)
HashReference == "hash"
SymbolicReference == "symbolic"

NewHashReference(h) == [type |-> HashReference, hash |-> h, target |-> <<>>]
NewSymbolicReference(t) == [type |-> SymbolicReference, hash |-> ZeroHash, target |-> t]

(***************************************************************************)
(* Reference resolution (Storer.Reference(name, true)): a symbolic         *)
(* reference is followed to a hash reference; a missing target or a loop   *)
(* is an error.                                                            *)
(***************************************************************************)
NotFound == [type |-> "notfound", hash |-> ZeroHash, target |-> <<>>]

RECURSIVE resolveReference(_, _, _)
resolveReference(rs, name, visited) ==
    IF name \notin DOMAIN rs \/ name \in visited THEN NotFound
    ELSE IF rs[name].type = SymbolicReference
         THEN resolveReference(rs, rs[name].target, visited \cup {name})
         ELSE rs[name]

Reference(rs, name) == resolveReference(rs, name, {})

VARIABLES
    objects,    \* the Store's objects: the hashes it holds
    refs,       \* the Store's references: name -> reference
    pc,         \* where the request being served is: "idle", a handler's step, "done"
    req,        \* the request being served
    conn,       \* "up" while the client takes what the server writes, else "down"
    resp,       \* the http.ResponseWriter: the status and what was written
    ret,        \* what the handler returned to ServeHTTP
    gw,         \* the handler's PacketLineWriter
    walker,     \* the objectWalker: seen, the GetObject calls made, the error
    wpc,        \* "new": the walker is fresh; "done": walkAllRefs has returned
    adv,        \* serveGitInfoRefs' refs: the advertisement lines
    iter,       \* the order in which the Store iterated its references for adv
    enc,        \* the call of the pack encoder: the hashes handed to it
    refUpdates, \* serveGitReceivePack's refUpdates
    applied,    \* for each refUpdate the loop has passed, whether SetReference succeeded
    scanned,    \* how many packet lines of the body the handler has read
    before,     \* the Store when the request arrived
    calls,      \* the calls made on a PacketLineWriter of its own, with what they returned
    peer        \* a second receive-pack request in its loop over refUpdates

vars == <<objects, refs, pc, req, conn, resp, ret, gw, walker, wpc, adv, iter, enc,
          refUpdates, applied, scanned, before, calls, peer>>

(***************************************************************************)
(* PacketLineWriter over a bufio.Writer over the http.ResponseWriter.      *)
(* err is PacketLineWriter.err, berr the bufio.Writer's own sticky error,  *)
(* buf the bytes buffered, out the bytes the ResponseWriter has accepted.  *)
(* up says whether the connection still takes writes.                      *)
(***************************************************************************)
NoError == "nil"

\* bufio.NewWriter's default buffer size.
BufSize == 4096

NewPacketLineWriter == [err |-> NoError, berr |-> NoError, buf |-> <<>>, out |-> <<>>]

\* A Flush that forgets an earlier failure and writes the buffer again.
bufioFlushRetry(w, up) ==
    IF w.buf = <<>> THEN w
    ELSE IF up THEN [w EXCEPT !.out = @ \o w.buf, !.buf = <<>>, !.berr = NoError]
         ELSE [w EXCEPT !.berr = "write failed"]

\* bufio.Writer.Flush.
bufioFlush(w, up) ==
    IF w.berr # NoError \/ w.buf = <<>> THEN w
    ELSE IF up THEN [w EXCEPT !.out = @ \o w.buf, !.buf = <<>>]
         ELSE [w EXCEPT !.berr = "write failed"]

\* bufio.Writer.Write: p is buffered; a full buffer is flushed first, and a p
\* larger than an empty buffer goes straight to the underlying writer.
RECURSIVE bufioWrite(_, _, _)
bufioWrite(w, p, up) ==
    IF Len(p) > BufSize - Len(w.buf) /\ w.berr = NoError
    THEN IF w.buf = <<>>
         THEN IF up THEN [w EXCEPT !.out = @ \o p] ELSE [w EXCEPT !.berr = "write failed"]
         ELSE LET n == BufSize - Len(w.buf)
                  w1 == bufioFlush([w EXCEPT !.buf = @ \o SubSeq(p, 1, n)], up)
              IN  bufioWrite(w1, SubSeq(p, n + 1, Len(p)), up)
    ELSE IF w.berr # NoError THEN w ELSE [w EXCEPT !.buf = @ \o p]

\* One w.w.Write of WriteLine or WriteZeroPacketLine: a failure is kept in err.
writeOrKeep(w, p, up) ==
    IF w.err # NoError THEN w
    ELSE LET w1 == bufioWrite(w, p, up)
         IN  IF w1.berr # NoError THEN [w1 EXCEPT !.err = w1.berr] ELSE w1

\* WriteLine with a length that leaves out the newline.
WriteLineLengthWithoutNewline(w, s, up) ==
    IF w.err # NoError THEN w
    ELSE LET n == 4 + Len(s)
             prefix == Sprintf04x(n)
         IN  writeOrKeep(writeOrKeep(writeOrKeep(w, prefix, up), s, up), <<LF>>, up)

\* PacketLineWriter.WriteLine.
WriteLine(w, s, up) ==
    IF w.err # NoError THEN w
    ELSE LET n == 4 + Len(s) + 1
             prefix == Sprintf04x(n)
         IN  writeOrKeep(writeOrKeep(writeOrKeep(w, prefix, up), s, up), <<LF>>, up)

\* PacketLineWriter.WriteZeroPacketLine.
WriteZeroPacketLine(w, up) ==
    IF w.err # NoError THEN w ELSE writeOrKeep(w, <<"0", "0", "0", "0">>, up)

\* PacketLineWriter.Flush: the writer after it, and what it returns.
Flush(w, up) == IF w.err # NoError THEN w ELSE bufioFlush(w, up)

FlushError(w) == IF w.err # NoError THEN w.err ELSE w.berr

(***************************************************************************)
(* http.ResponseWriter: the status is that of the first WriteHeader (a      *)
(* Write without one implies 200); out is what has been written.           *)
(***************************************************************************)
StatusOK == 200
StatusNotFound == 404
StatusInternalServerError == 500

NewResponse == [status |-> 0, out |-> <<>>]

BytesEvent(b) == [kind |-> "bytes", bytes |-> b, objs |-> {}]
PackEvent(hs) == [kind |-> "pack", bytes |-> <<>>, objs |-> hs]
ErrorEvent == [kind |-> "error", bytes |-> <<>>, objs |-> {}]

WriteHeader(r, code) == IF r.status = 0 THEN [r EXCEPT !.status = code] ELSE r

\* w.Write of one event; a connection that is down takes nothing.
Write(r, ev, up) ==
    LET r1 == WriteHeader(r, StatusOK)
    IN  IF up THEN [r1 EXCEPT !.out = Append(@, ev)] ELSE r1

\* The bytes a PacketLineWriter passed on reach the response.
Drain(r, w, up) == IF w.out = <<>> THEN r ELSE Write(r, BytesEvent(w.out), up)

\* http.Error.
httpError(r, code, up) == Write(WriteHeader(r, code), ErrorEvent, up)

(***************************************************************************)
(* objectWalker.                                                           *)
(***************************************************************************)
newObjectWalker == [seen |-> {}, fetched |-> <<>>, roots |-> <<>>, err |-> NoError]

isSeen(w, hash) == hash \in w.seen

add(w, hash) == [w EXCEPT !.seen = @ \cup {hash}]

\* object.GetObject: the call is recorded; a hash the Store lacks is an error.
GetObject(objs, w, hash) ==
    [w EXCEPT !.fetched = Append(@, hash),
              !.err = IF hash \in objs THEN NoError ELSE "getting object failed"]

RECURSIVE walkObjectTree(_, _, _)
RECURSIVE walkParents(_, _, _)
RECURSIVE walkEntries(_, _, _)

\* walkCommit without the loop over obj.ParentHashes.
walkCommitTreeOnly(objs, w, obj) == walkObjectTree(objs, w, obj.tree)

walkCommit(objs, w, obj) ==
    LET w1 == walkObjectTree(objs, w, obj.tree)
    IN  IF w1.err # NoError THEN w1 ELSE walkParents(objs, w1, obj.parents)

walkParents(objs, w, hs) ==
    IF hs = <<>> THEN w
    ELSE LET w1 == walkObjectTree(objs, w, Head(hs))
         IN  IF w1.err # NoError THEN w1 ELSE walkParents(objs, w1, Tail(hs))

\* walkEntry with the submodule case falling into the blob case.
walkEntryAddsSubmodule(objs, w, e) ==
    CASE e.mode \in {Executable, Regular, Symlink, Submodule} -> add(w, e.hash)
      [] OTHER -> walkObjectTree(objs, w, e.hash)

\* walkEntry walking into every entry that is not a submodule.
walkEntryWalksBlobs(objs, w, e) ==
    CASE e.mode = Submodule -> w
      [] OTHER -> walkObjectTree(objs, w, e.hash)

\* One entry of the loop over obj.Entries.
walkEntry(objs, w, e) ==
    CASE e.mode \in {Executable, Regular, Symlink} -> add(w, e.hash)
      [] e.mode = Submodule -> w
      [] e.mode = Dir -> walkObjectTree(objs, w, e.hash)
      [] OTHER -> walkObjectTree(objs, w, e.hash)

walkEntries(objs, w, es) ==
    IF es = <<>> THEN w
    ELSE LET w1 == walkEntry(objs, w, Head(es))
         IN  IF w1.err # NoError THEN w1 ELSE walkEntries(objs, w1, Tail(es))

walkTag(objs, w, obj) == walkObjectTree(objs, w, obj.target)

\* The switch on the object's type.
walkChildren(objs, w, obj) ==
    CASE obj.type = "commit" -> walkCommit(objs, w, obj)
      [] obj.type = "tree" -> walkEntries(objs, w, obj.entries)
      [] obj.type = "tag" -> walkTag(objs, w, obj)
      [] OTHER -> [w EXCEPT !.err = "unknown object"]

\* walkObjectTree with the fetch made before the isSeen test.
walkObjectTreeFetchFirst(objs, w, hash) ==
    LET w1 == GetObject(objs, add(w, hash), hash)
    IN  IF isSeen(w, hash) THEN [w1 EXCEPT !.err = w.err]
        ELSE IF w1.err # NoError THEN w1 ELSE walkChildren(objs, w1, Object(hash))

walkObjectTree(objs, w, hash) ==
    IF isSeen(w, hash) THEN w
    ELSE LET w1 == GetObject(objs, add(w, hash), hash)
         IN  IF w1.err # NoError THEN w1 ELSE walkChildren(objs, w1, Object(hash))

\* The callback of it.ForEach in walkAllRefs.
walkRef(objs, w, ref) ==
    IF ref.type # HashReference THEN w
    ELSE walkObjectTree(objs, [w EXCEPT !.roots = Append(@, ref.hash)], ref.hash)

\* it.ForEach: the references in the order the Store iterates them; the first
\* error ends the iteration.
RECURSIVE ForEachRef(_, _, _, _)
ForEachRef(objs, rs, w, order) ==
    IF order = <<>> THEN w
    ELSE LET w1 == walkRef(objs, w, rs[Head(order)])
         IN  IF w1.err # NoError THEN w1 ELSE ForEachRef(objs, rs, w1, Tail(order))

walkAllRefs(objs, rs, w, order) == ForEachRef(objs, rs, w, order)

(***************************************************************************)
(* Requests.  A body is the payloads of its packet lines (frames; the      *)
(* flush packet "0000" is the empty payload) and how the scanner ends      *)
(* after them: at the end of the input ("eof") or on a framing error       *)
(* ("error").  In a receive-pack body the pack follows the first empty     *)
(* payload.                                                                *)
(***************************************************************************)
\* The sequences over S of length at most n.
SeqUpTo(S, n) == UNION {[1..k -> S] : k \in 0..n}

\* No pack has been read from the body yet.
NoPack == [read |-> FALSE, objs |-> <<>>, valid |-> FALSE]

Request(path, service, encoding, gzipOk, frames, end) ==
    [path |-> path, service |-> service, encoding |-> encoding, gzipOk |-> gzipOk,
     frames |-> frames, end |-> end, pack |-> NoPack]

NoRequest == Request("", <<>>, "", TRUE, <<>>, "eof")

\* A ref-update line as the client formats it.
UpdateLine(from, to, name) == HashString(from) \o <<SP>> \o HashString(to) \o <<SP>> \o name

\* s with its lowercase hex letters in upper case.
ToUpper(s) == [i \in DOMAIN s |-> IF fromHexChar(s[i]) >= 10 THEN UpperHexChars[fromHexChar(s[i]) + 1] ELSE s[i]]

\* The ref-update lines of the model.  Well formed: main to the pushed merge
\* with the client's capabilities (well formed on the first line only); main
\* to a commit the pack does not hold, with a wrong old value and upper-case
\* hex; a tag to the zero hash.
LineMainCaps == UpdateLine(C1, C3, Main) \o <<NUL>> \o ReportStatus
LineMainOther == ToUpper(HashString(ZeroHash)) \o <<SP>> \o ToUpper(HashString(C4)) \o <<SP>> \o Main
LineTagZero == UpdateLine(C1, ZeroHash, TagV1)
\* Malformed: two fields; a first hash that is not hex; a second hash of 19
\* bytes.
LineTwoFields == HashString(C1) \o <<SP>> \o HashString(C3)
LineBadHex == <<"g">> \o Tail(UpdateLine(C1, C3, Main))
LineShortHash == HashString(C1) \o <<SP>> \o SubSeq(HashString(C3), 1, 2 * HashSize - 2) \o <<SP>> \o Main

UpdateLines == {LineMainCaps, LineMainOther, LineTagZero, LineTwoFields, LineBadHex, LineShortHash}

\* The lines of a request: the handler reads nothing after a line it rejects,
\* so a line that is malformed wherever it stands is the last one.
UpdateFrames ==
    {fs \in SeqUpTo(UpdateLines, MaxLines) :
        \A i \in 1..(Len(fs) - 1) : fs[i] \notin {LineTwoFields, LineBadHex, LineShortHash}}

\* The negotiation lines of the model: want, have, done, and the flush packet.
LineWant == <<"w", "a", "n", "t", SP>> \o HashString(C1) \o <<LF>>
LineHave == <<"h", "a", "v", "e", SP>> \o HashString(C3) \o <<LF>>
LineDone == <<"d", "o", "n", "e", LF>>
FlushPkt == <<>>

NegotiationLines == {LineWant, LineHave, LineDone, FlushPkt}

\* The packs of the model: the merge commit C3 with its second parent, its
\* tree and the blob of the tree, whole or corrupt; and the same without the
\* blob, a pack that decodes and leaves the pushed tree with a missing entry.
Packs ==
    {[read |-> TRUE, objs |-> <<B2, T2, C2, C3>>, valid |-> TRUE],
     [read |-> TRUE, objs |-> <<B2, T2, C2, C3>>, valid |-> FALSE],
     [read |-> TRUE, objs |-> <<T2, C2, C3>>, valid |-> TRUE]}

DiscoveryRequests ==
    {Request("/info/refs", s, "", TRUE, <<>>, "eof") :
        s \in {UploadPackService, ReceivePackService, <<>>}}

UploadPackRequests ==
    {Request("/git-upload-pack", <<>>, "", TRUE, fs, e) :
        fs \in SeqUpTo(NegotiationLines, MaxNegotiation), e \in {"eof", "error"}}

ReceivePackRequests ==
    {Request("/git-receive-pack", <<>>, ce, TRUE, fs \o <<FlushPkt>>, "eof") :
        ce \in {"", "gzip"}, fs \in UpdateFrames}
    \cup {Request("/git-receive-pack", <<>>, ce, TRUE, fs, e) :
        ce \in {"", "gzip"}, fs \in UpdateFrames, e \in {"eof", "error"}}
    \cup {Request("/git-receive-pack", <<>>, "gzip", FALSE, <<LineMainCaps, FlushPkt>>, "eof"),
          Request("/git-receive-pack", <<>>, "br", TRUE, <<LineMainCaps, FlushPkt>>, "eof")}

OtherRequests ==
    {Request(p, <<>>, "", TRUE, <<>>, "eof") : p \in {"/", "/repo/info/refs", "/git-upload-pack/"}}

Requests == DiscoveryRequests \cup UploadPackRequests \cup ReceivePackRequests \cup OtherRequests

(***************************************************************************)
(* The Store's reference operations.                                       *)
(***************************************************************************)
\* Storer.SetReference that succeeded: the name now holds the reference.
SetReference(rs, name, ref) ==
    [n \in DOMAIN rs \cup {name} |-> IF n = name THEN ref ELSE rs[n]]

(***************************************************************************)
(* serveGitInfoRefs.                                                       *)
(***************************************************************************)
\* The capabilities of a service; "unknown" is the default case of the switch.
Capabilities(serviceName) ==
    CASE serviceName = UploadPackService -> [err |-> NoError, caps |-> <<SymrefCap>>]
      [] serviceName = ReceivePackService -> [err |-> NoError, caps |-> <<>>]
      [] OTHER -> [err |-> "unknown service-name", caps |-> <<>>]

\* The callback with HEAD appended like any other reference.
advertiseRefAppend(rs, list, name) ==
    LET ref == rs[name]
        resolved == IF ref.type = SymbolicReference THEN Reference(rs, name) ELSE ref
        s == HashString(resolved.hash) \o <<SP>> \o name
    IN  IF IsRemote(name) THEN [err |-> NoError, refs |-> list]
        ELSE IF ref.type = SymbolicReference /\ resolved.type # HashReference
             THEN [err |-> NoError, refs |-> list]
        ELSE IF ref.type \notin {SymbolicReference, HashReference}
             THEN [err |-> "unexpected reference encountered", refs |-> list]
        ELSE [err |-> NoError, refs |-> Append(list, s)]

\* The callback without the skip of remote-tracking references.
advertiseRefWithRemotes(rs, list, name) ==
    LET ref == rs[name]
        resolved == IF ref.type = SymbolicReference THEN Reference(rs, name) ELSE ref
        s == HashString(resolved.hash) \o <<SP>> \o name
    IN  IF ref.type = SymbolicReference /\ resolved.type # HashReference
        THEN [err |-> NoError, refs |-> list]
        ELSE IF ref.type \notin {SymbolicReference, HashReference}
             THEN [err |-> "unexpected reference encountered", refs |-> list]
        ELSE IF name = HEAD THEN [err |-> NoError, refs |-> <<s>> \o list]
             ELSE [err |-> NoError, refs |-> Append(list, s)]

\* The callback of it.ForEach in serveGitInfoRefs: the list after one reference.
advertiseRef(rs, list, name) ==
    LET ref == rs[name]
        resolved == IF ref.type = SymbolicReference THEN Reference(rs, name) ELSE ref
        s == HashString(resolved.hash) \o <<SP>> \o name
    IN  IF IsRemote(name) THEN [err |-> NoError, refs |-> list]
        ELSE IF ref.type = SymbolicReference /\ resolved.type # HashReference
             THEN [err |-> NoError, refs |-> list]
        ELSE IF ref.type \notin {SymbolicReference, HashReference}
             THEN [err |-> "unexpected reference encountered", refs |-> list]
        ELSE IF name = HEAD THEN [err |-> NoError, refs |-> <<s>> \o list]
             ELSE [err |-> NoError, refs |-> Append(list, s)]

\* it.ForEach over the references in the Store's order.
RECURSIVE advertise(_, _, _)
advertise(rs, list, order) ==
    IF order = <<>> THEN [err |-> NoError, refs |-> list]
    ELSE LET a == advertiseRef(rs, list, Head(order))
         IN  IF a.err # NoError THEN a ELSE advertise(rs, a.refs, Tail(order))

\* The loop attaching the capabilities to every line.
RECURSIVE writeRefsCapsOnEveryLine(_, _, _, _, _)
writeRefsCapsOnEveryLine(w, list, caps, i, up) ==
    IF i > Len(list) THEN w
    ELSE LET s == list[i] \o <<NUL>> \o Join(caps, SP)
         IN  writeRefsCapsOnEveryLine(WriteLine(w, s, up), list, caps, i + 1, up)

\* The loop that writes the advertisement lines, from line i on.
RECURSIVE writeRefs(_, _, _, _, _)
writeRefs(w, list, caps, i, up) ==
    IF i > Len(list) THEN w
    ELSE LET s == IF i = 1 THEN list[i] \o <<NUL>> \o Join(caps, SP) ELSE list[i]
         IN  writeRefs(WriteLine(w, s, up), list, caps, i + 1, up)

\* The response body of serveGitInfoRefs, up to and with the Flush.
writeAdvertisement(serviceName, list, caps, up) ==
    LET w1 == WriteLine(NewPacketLineWriter, ServicePrefix \o serviceName, up)
        w2 == WriteZeroPacketLine(w1, up)
        w3 == writeRefs(w2, list, caps, 1, up)
        w4 == WriteZeroPacketLine(w3, up)
    IN  Flush(w4, up)

(***************************************************************************)
(* serveGitReceivePack: the loop over the ref-update lines.                *)
(***************************************************************************)
RefUpdate(from, to, ref) == [From |-> from, To |-> to, Ref |-> ref]

\* One line of the loop: the update it holds, or the error it is rejected with.
parseUpdateLine(line, firstLine) ==
    LET tokens == SplitN(line, SP, 3)
        refTokens == Split(tokens[3], NUL)
        from == parseHash(tokens[1])
        to == parseHash(tokens[2])
    IN  IF Len(tokens) # 3 THEN [err |-> "unexpected line (spaces)", update |-> <<>>]
        ELSE IF ~firstLine /\ Len(refTokens) # 1
             THEN [err |-> "unexpected line (nulls)", update |-> <<>>]
        ELSE IF from.err # NoError THEN [err |-> "unexpected line (hash1)", update |-> <<>>]
        ELSE IF to.err # NoError THEN [err |-> "unexpected line (hash2)", update |-> <<>>]
        ELSE [err |-> NoError, update |-> <<RefUpdate(from.hash, to.hash, refTokens[1])>>]

\* The loop from frame i on: the updates parsed, the frames scanned, the error.
RECURSIVE parseUpdates(_, _, _, _)
parseUpdates(frames, end, i, updates) ==
    IF i > Len(frames)
    THEN [err |-> IF end = "error" THEN "error reading request line"
                  ELSE "error reading request line: EOF",
          updates |-> updates, scanned |-> Len(frames)]
    ELSE IF frames[i] = <<>> THEN [err |-> NoError, updates |-> updates, scanned |-> i]
    ELSE LET p == parseUpdateLine(frames[i], i = 1)
         IN  IF p.err # NoError THEN [err |-> p.err, updates |-> updates, scanned |-> i]
             ELSE parseUpdates(frames, end, i + 1, updates \o p.update)

\* The head of serveGitReceivePack: the Content-Encoding switch, then the loop.
parseReceivePack(r) ==
    CASE r.encoding = "" -> parseUpdates(r.frames, r.end, 1, <<>>)
      [] r.encoding = "gzip" ->
            IF r.gzipOk THEN parseUpdates(r.frames, r.end, 1, <<>>)
            ELSE [err |-> "gzip.NewReader failed", updates |-> <<>>, scanned |-> 0]
      [] OTHER -> [err |-> "unknown content-encoding", updates |-> <<>>, scanned |-> 0]

\* packfile.UpdateObjectStorage: the objects of the pack's first k entries.
Unpacked(pack, k) == {pack.objs[i] : i \in 1..k}

(***************************************************************************)
(* The server: one request at a time.                                      *)
(***************************************************************************)
\* The Stores a GitServer is constructed on: a repository after initRepo; a
\* repository as gogit.Init leaves it (HEAD names a branch that does not
\* exist); a clone with a remote-tracking reference; a detached HEAD.
InitStores ==
    {[objects |-> {B1, T1, C1},
      refs |-> (Main :> NewHashReference(C1)) @@ (HEAD :> NewSymbolicReference(Main))],
     [objects |-> {},
      refs |-> (HEAD :> NewSymbolicReference(Master))],
     [objects |-> {B1, T1, C1},
      refs |-> (Main :> NewHashReference(C1)) @@ (HEAD :> NewSymbolicReference(Main))
               @@ (RemoteMain :> NewHashReference(C1))],
     [objects |-> {B1, T1, C1},
      refs |-> (Main :> NewHashReference(C1)) @@ (HEAD :> NewHashReference(C1))]}

NoEncode == [called |-> FALSE, objs |-> {}]

\* No second request is being served.
NoPeer == [pc |-> "idle", refUpdates |-> <<>>, applied |-> <<>>]

\* Between requests.
Idle ==
    /\ pc = "idle"
    /\ req = NoRequest
    /\ conn = "up"
    /\ resp = NewResponse
    /\ ret = NoError
    /\ gw = NewPacketLineWriter
    /\ walker = newObjectWalker
    /\ wpc = "new"
    /\ adv = <<>>
    /\ iter = <<>>
    /\ enc = NoEncode
    /\ refUpdates = <<>>
    /\ applied = <<>>
    /\ scanned = 0
    /\ calls = <<>>
    /\ peer = NoPeer

Init ==
    /\ \E s \in InitStores : objects = s.objects /\ refs = s.refs
    /\ before = [objects |-> objects, refs |-> refs]
    /\ Idle

\* ServeHTTP on a handler's return: an error becomes a 500.
Return(r, err, up) == IF err # NoError THEN httpError(r, StatusInternalServerError, up) ELSE r

\* serveRequest: the dispatch on the path; any other path is a 404.
ServeRequest ==
    /\ pc = "idle"
    /\ \E r \in Requests :
        /\ req' = r
        /\ pc' = CASE r.path = "/info/refs" -> "infoRefs"
                   [] r.path = "/git-upload-pack" -> "uploadPack"
                   [] r.path = "/git-receive-pack" -> "receivePack"
                   [] OTHER -> "done"
        /\ resp' = IF r.path \in {"/info/refs", "/git-upload-pack", "/git-receive-pack"}
                   THEN NewResponse
                   ELSE httpError(NewResponse, StatusNotFound, TRUE)
    /\ before' = [objects |-> objects, refs |-> refs]
    /\ UNCHANGED <<objects, refs, walker, wpc, conn, ret, gw, adv, iter, enc, refUpdates, applied, scanned, calls, peer>>

\* The client goes away while its request is being served.
Disconnect ==
    /\ pc \notin {"idle", "done"}
    /\ conn = "up"
    /\ conn' = "down"
    /\ UNCHANGED <<objects, refs, walker, wpc, pc, req, resp, ret, gw, adv, iter, enc, refUpdates,
                   applied, before, scanned, calls, peer>>

\* serveGitInfoRefs.
InfoRefs ==
    /\ pc = "infoRefs"
    /\ LET c == Capabilities(req.service)
           up == conn = "up"
       IN  IF c.err # NoError
           THEN /\ ret' = c.err
                /\ resp' = Return(resp, c.err, up)
                /\ UNCHANGED <<adv, iter, gw>>
           ELSE \E order \in Perms(DOMAIN refs) :
                    LET a == advertise(refs, <<>>, order)
                        w == writeAdvertisement(req.service, a.refs, c.caps, up)
                    IN  IF a.err # NoError
                        THEN /\ ret' = "error iterating through references"
                             /\ resp' = Return(resp, a.err, up)
                             /\ UNCHANGED <<adv, iter, gw>>
                        ELSE /\ ret' = NoError
                             /\ adv' = a.refs
                             /\ iter' = order
                             /\ gw' = w
                             /\ resp' = Drain(WriteHeader(resp, StatusOK), w, up)
    /\ pc' = "done"
    /\ UNCHANGED <<objects, refs, walker, wpc, req, conn, enc, refUpdates, applied, before, scanned, calls, peer>>

\* serveGitUploadPack up to the Flush of the NAK line: the request lines are
\* read and dropped, every reference is walked, NAK is written.
UploadPackWalk ==
    /\ pc = "uploadPack"
    /\ scanned' = Len(req.frames)
    /\ LET up == conn = "up"
       IN  IF req.end = "error"
           THEN /\ ret' = "error parsing request"
                /\ resp' = Return(resp, "error parsing request", up)
                /\ pc' = "done"
                /\ UNCHANGED <<walker, wpc, gw>>
           ELSE \E order \in Perms(DOMAIN refs) :
                    LET w == walkAllRefs(objects, refs, newObjectWalker, order)
                        e == Flush(WriteLine(NewPacketLineWriter, NAK, up), up)
                    IN  /\ walker' = w
                        /\ wpc' = "done"
                        /\ IF w.err # NoError
                           THEN /\ ret' = "error walking refs"
                                /\ resp' = Return(resp, w.err, up)
                                /\ pc' = "done"
                                /\ UNCHANGED gw
                           ELSE /\ ret' = NoError
                                /\ gw' = e
                                /\ resp' = Drain(WriteHeader(resp, StatusOK), e, up)
                                /\ pc' = IF FlushError(e) # NoError THEN "done" ELSE "encode"
    /\ UNCHANGED <<objects, refs, req, conn, adv, iter, enc, refUpdates, applied, before, calls, peer>>

\* The hashes the client's have lines name.
Haves(frames) ==
    {h \in AllObjects :
        \E i \in DOMAIN frames : frames[i] = <<"h", "a", "v", "e", SP>> \o HashString(h) \o <<LF>>}

\* The encoder handed only what the client does not have.
UploadPackEncodeWithoutHaves ==
    /\ pc = "encode"
    /\ LET sent == walker.seen \ Haves(req.frames)
       IN  /\ enc' = [called |-> TRUE, objs |-> sent]
           /\ resp' = IF sent \subseteq objects
                      THEN Write(resp, PackEvent(sent), conn = "up")
                      ELSE resp
    /\ pc' = "done"
    /\ UNCHANGED <<objects, refs, walker, wpc, req, conn, ret, gw, adv, iter, refUpdates, applied,
                   before, scanned, calls, peer>>

\* serveGitUploadPack from packfile.NewEncoder on: the objects the walker has
\* seen are handed to the encoder, which writes the pack or fails.
UploadPackEncode ==
    /\ pc = "encode"
    /\ enc' = [called |-> TRUE, objs |-> walker.seen]
    /\ resp' = IF walker.seen \subseteq objects
               THEN Write(resp, PackEvent(walker.seen), conn = "up")
               ELSE resp
    /\ pc' = "done"
    /\ UNCHANGED <<objects, refs, walker, wpc, req, conn, ret, gw, adv, iter, refUpdates, applied,
                   before, scanned, calls, peer>>

\* serveGitReceivePack up to WriteHeader: the Content-Encoding is checked and
\* the ref-update lines are parsed; any error ends the request.
ReceivePackParse ==
    /\ pc = "receivePack"
    /\ LET p == parseReceivePack(req)
       IN  /\ scanned' = p.scanned
           /\ IF p.err # NoError
              THEN /\ ret' = p.err
                   /\ resp' = Return(resp, p.err, conn = "up")
                   /\ pc' = "done"
                   /\ UNCHANGED refUpdates
              ELSE /\ ret' = NoError
                   /\ refUpdates' = p.updates
                   /\ resp' = WriteHeader(resp, StatusOK)
                   /\ pc' = "unpack"
    /\ UNCHANGED <<objects, refs, walker, wpc, req, conn, gw, adv, iter, enc, applied, before, calls, peer>>

\* The handler going on to the ref updates after a pack that failed to decode.
ReceivePackUnpackThenUpdate ==
    /\ pc = "unpack"
    /\ \E pack \in Packs :
        LET up == conn = "up"
        IN  /\ req' = [req EXCEPT !.pack = pack]
            /\ IF ~pack.valid
               THEN \E k \in 0..Len(pack.objs) :
                        LET w == Flush(WriteLine(gw, UnpackErr, up), up)
                        IN  /\ objects' = objects \cup Unpacked(pack, k)
                            /\ gw' = w
                            /\ resp' = Drain(resp, w, up)
                            /\ pc' = "update"
               ELSE LET w == Flush(WriteZeroPacketLine(WriteLine(gw, UnpackOk, up), up), up)
                    IN  /\ objects' = objects \cup Unpacked(pack, Len(pack.objs))
                        /\ gw' = w
                        /\ resp' = Drain(resp, w, up)
                        /\ pc' = IF FlushError(w) # NoError THEN "done" ELSE "update"
    /\ UNCHANGED <<refs, walker, wpc, conn, ret, adv, iter, enc, refUpdates, applied, before, scanned, calls, peer>>

\* The handler returning the error of a pack that failed to decode.
ReceivePackUnpackOrError ==
    /\ pc = "unpack"
    /\ \E pack \in Packs :
        LET up == conn = "up"
        IN  /\ req' = [req EXCEPT !.pack = pack]
            /\ IF ~pack.valid
               THEN \E k \in 0..Len(pack.objs) :
                        /\ objects' = objects \cup Unpacked(pack, k)
                        /\ ret' = "error parsing packfile"
                        /\ resp' = Return(resp, "error parsing packfile", up)
                        /\ pc' = "done"
                        /\ UNCHANGED gw
               ELSE LET w == Flush(WriteZeroPacketLine(WriteLine(gw, UnpackOk, up), up), up)
                    IN  /\ objects' = objects \cup Unpacked(pack, Len(pack.objs))
                        /\ gw' = w
                        /\ resp' = Drain(resp, w, up)
                        /\ pc' = IF FlushError(w) # NoError THEN "done" ELSE "update"
                        /\ UNCHANGED ret
    /\ UNCHANGED <<refs, walker, wpc, conn, adv, iter, enc, refUpdates, applied, before, scanned, calls, peer>>

\* The handler going on to the ref updates after a failed Flush of "unpack ok".
ReceivePackUnpackIgnoresFlushError ==
    /\ pc = "unpack"
    /\ \E pack \in Packs :
        LET up == conn = "up"
        IN  /\ req' = [req EXCEPT !.pack = pack]
            /\ IF ~pack.valid
               THEN \E k \in 0..Len(pack.objs) :
                        LET w == Flush(WriteLine(gw, UnpackErr, up), up)
                        IN  /\ objects' = objects \cup Unpacked(pack, k)
                            /\ gw' = w
                            /\ resp' = Drain(resp, w, up)
                            /\ pc' = "done"
               ELSE LET w == Flush(WriteZeroPacketLine(WriteLine(gw, UnpackOk, up), up), up)
                    IN  /\ objects' = objects \cup Unpacked(pack, Len(pack.objs))
                        /\ gw' = w
                        /\ resp' = Drain(resp, w, up)
                        /\ pc' = "update"
    /\ UNCHANGED <<refs, walker, wpc, conn, ret, adv, iter, enc, refUpdates, applied, before, scanned, calls, peer>>

\* serveGitReceivePack from UpdateObjectStorage to the Flush of the status:
\* the rest of the body is decoded as a pack.  A pack that fails to decode may
\* have stored the objects that precede the fault.
ReceivePackUnpack ==
    /\ pc = "unpack"
    /\ \E pack \in Packs :
        LET up == conn = "up"
        IN  /\ req' = [req EXCEPT !.pack = pack]
            /\ IF ~pack.valid
               THEN \E k \in 0..Len(pack.objs) :
                        LET w == Flush(WriteLine(gw, UnpackErr, up), up)
                        IN  /\ objects' = objects \cup Unpacked(pack, k)
                            /\ gw' = w
                            /\ resp' = Drain(resp, w, up)
                            /\ pc' = "done"
               ELSE LET w == Flush(WriteZeroPacketLine(WriteLine(gw, UnpackOk, up), up), up)
                    IN  /\ objects' = objects \cup Unpacked(pack, Len(pack.objs))
                        /\ gw' = w
                        /\ resp' = Drain(resp, w, up)
                        /\ pc' = IF FlushError(w) # NoError THEN "done" ELSE "update"
    /\ UNCHANGED <<refs, walker, wpc, conn, ret, adv, iter, enc, refUpdates, applied, before, scanned, calls, peer>>

\* The loop setting the reference to refUpdate.From.
ReceivePackSetReferenceFrom ==
    /\ pc = "update"
    /\ Len(applied) < Len(refUpdates)
    /\ LET refUpdate == refUpdates[Len(applied) + 1]
       IN  \E ok \in BOOLEAN :
               /\ refs' = IF ok
                          THEN SetReference(refs, refUpdate.Ref, NewHashReference(refUpdate.From))
                          ELSE refs
               /\ applied' = Append(applied, ok)
    /\ UNCHANGED <<objects, walker, wpc, pc, req, conn, resp, ret, gw, adv, iter, enc, refUpdates,
                   before, scanned, calls, peer>>

\* The loop returning the error of the first SetReference that fails.
ReceivePackSetReferenceOrReturn ==
    /\ pc = "update"
    /\ Len(applied) < Len(refUpdates)
    /\ LET refUpdate == refUpdates[Len(applied) + 1]
       IN  \E ok \in BOOLEAN :
               /\ applied' = Append(applied, ok)
               /\ IF ok
                  THEN /\ refs' = SetReference(refs, refUpdate.Ref, NewHashReference(refUpdate.To))
                       /\ UNCHANGED <<pc, ret, resp>>
                  ELSE /\ ret' = "error updating reference"
                       /\ resp' = Return(resp, "error updating reference", conn = "up")
                       /\ pc' = "done"
                       /\ UNCHANGED refs
    /\ UNCHANGED <<objects, walker, wpc, req, conn, gw, adv, iter, enc, refUpdates, before, scanned, calls, peer>>

\* The references as the updates that SetReference accepted make them.
RECURSIVE Accepted(_, _, _, _)
Accepted(rs, updates, oks, i) ==
    IF i > Len(oks) THEN rs
    ELSE Accepted(IF oks[i] THEN SetReference(rs, updates[i].Ref, NewHashReference(updates[i].To))
                  ELSE rs,
                  updates, oks, i + 1)

\* The loop writing the references as this request has made them from the
\* values it found when it arrived.
ReceivePackSetReferenceFromSnapshot ==
    /\ pc = "update"
    /\ Len(applied) < Len(refUpdates)
    /\ LET refUpdate == refUpdates[Len(applied) + 1]
       IN  \E ok \in BOOLEAN :
               /\ refs' = IF ok
                          THEN SetReference(Accepted(before.refs, refUpdates, applied, 1),
                                            refUpdate.Ref, NewHashReference(refUpdate.To))
                          ELSE refs
               /\ applied' = Append(applied, ok)
    /\ UNCHANGED <<objects, walker, wpc, pc, req, conn, resp, ret, gw, adv, iter, enc, refUpdates,
                   before, scanned, calls, peer>>

\* One pass of the loop over refUpdates: SetReference succeeds or fails (the
\* failure is logged).
ReceivePackSetReference ==
    /\ pc = "update"
    /\ Len(applied) < Len(refUpdates)
    /\ LET refUpdate == refUpdates[Len(applied) + 1]
       IN  \E ok \in BOOLEAN :
               /\ refs' = IF ok
                          THEN SetReference(refs, refUpdate.Ref, NewHashReference(refUpdate.To))
                          ELSE refs
               /\ applied' = Append(applied, ok)
    /\ UNCHANGED <<objects, walker, wpc, pc, req, conn, resp, ret, gw, adv, iter, enc, refUpdates,
                   before, scanned, calls, peer>>

\* The return of serveGitReceivePack after the loop.
ReceivePackReturn ==
    /\ pc = "update"
    /\ Len(applied) = Len(refUpdates)
    /\ pc' = "done"
    /\ UNCHANGED <<objects, refs, walker, wpc, req, conn, resp, ret, gw, adv, iter, enc, refUpdates,
                   applied, before, scanned, calls, peer>>

\* The request is over; what it held is dropped.
Finish ==
    /\ pc = "done"
    /\ pc' = "idle"
    /\ req' = NoRequest
    /\ conn' = "up"
    /\ resp' = NewResponse
    /\ ret' = NoError
    /\ gw' = NewPacketLineWriter
    /\ walker' = newObjectWalker
    /\ wpc' = "new"
    /\ adv' = <<>>
    /\ iter' = <<>>
    /\ enc' = NoEncode
    /\ refUpdates' = <<>>
    /\ applied' = <<>>
    /\ scanned' = 0
    /\ UNCHANGED <<objects, refs, before, calls, peer>>

Next ==
    \/ ServeRequest
    \/ Disconnect
    \/ InfoRefs
    \/ UploadPackWalk
    \/ UploadPackEncode
    \/ ReceivePackParse
    \/ ReceivePackUnpack
    \/ ReceivePackSetReference
    \/ ReceivePackReturn
    \/ Finish

Spec == Init /\ [][Next]_vars

(***************************************************************************)
(* SpecWalk: the walker applied to the Stores of a bounded family.         *)
(***************************************************************************)
\* The Stores' object sets: the Universe less at most MaxMissing objects.
StoreObjects ==
    {AllObjects \ m : m \in {s \in SUBSET AllObjects : Cardinality(s) <= MaxMissing}}

\* The Stores' references: HEAD absent or symbolic, two names absent or hash
\* references to any object.
StoreRefs ==
    {f \in UNION {[ns -> {NewSymbolicReference(Main)}
                         \cup {NewHashReference(h) : h \in AllObjects}]
                  : ns \in SUBSET {HEAD, Main, TagV1}} :
        /\ \A n \in DOMAIN f : (f[n].type = SymbolicReference) <=> (n = HEAD)}

InitWalk ==
    /\ objects \in StoreObjects
    /\ refs \in StoreRefs
    /\ before = [objects |-> objects, refs |-> refs]
    /\ Idle

\* walkAllRefs on a fresh walker, for one order of the Store's iteration.
WalkAllRefs ==
    /\ pc = "idle" /\ wpc = "new"
    /\ \E order \in Perms(DOMAIN refs) :
           walker' = walkAllRefs(objects, refs, walker, order)
    /\ wpc' = "done"
    /\ UNCHANGED <<objects, refs, pc, req, conn, resp, ret, gw, adv, iter, enc, refUpdates, applied,
                   scanned, before, calls, peer>>

\* newObjectWalker: the next walk starts from an empty seen-set.
NewObjectWalker ==
    /\ pc = "idle" /\ wpc = "done"
    /\ walker' = newObjectWalker
    /\ wpc' = "new"
    /\ UNCHANGED <<objects, refs, pc, req, conn, resp, ret, gw, adv, iter, enc, refUpdates, applied,
                   scanned, before, calls, peer>>

NextWalk == WalkAllRefs \/ NewObjectWalker

SpecWalk == InitWalk /\ [][NextWalk]_vars

(***************************************************************************)
(* SpecConc: two receive-pack requests served at once (net/http runs each   *)
(* request on a goroutine of its own), both in the loop over refUpdates.    *)
(* The Store's SetReference is atomic; the loop holds no lock.              *)
(***************************************************************************)
\* The bodies of the two requests: two ref updates to one commit.
ConcFrames ==
    {<<UpdateLine(C1, to, n1), UpdateLine(C1, to, n2), FlushPkt>> :
        to \in {C1, C3}, n1 \in {Main, TagV1}, n2 \in {Main, TagV1}}

\* Both requests have parsed their lines, stored their pack and flushed
\* "unpack ok"; no reference has been set yet.
InitConc ==
    /\ objects = {B1, T1, C1, B2, T2, C2, C3}
    /\ refs = (Main :> NewHashReference(C1)) @@ (HEAD :> NewSymbolicReference(Main))
    /\ before = [objects |-> {B1, T1, C1}, refs |-> refs]
    /\ pc = "update"
    /\ conn = "up"
    /\ \E fs \in ConcFrames :
        /\ req = [Request("/git-receive-pack", <<>>, "", TRUE, fs, "eof")
                    EXCEPT !.pack = [read |-> TRUE, objs |-> <<B2, T2, C2, C3>>, valid |-> TRUE]]
        /\ refUpdates = parseUpdates(fs, "eof", 1, <<>>).updates
        /\ scanned = Len(fs)
    /\ \E fs \in ConcFrames :
        peer = [pc |-> "update", refUpdates |-> parseUpdates(fs, "eof", 1, <<>>).updates,
                applied |-> <<>>]
    /\ gw = Flush(WriteZeroPacketLine(WriteLine(NewPacketLineWriter, UnpackOk, TRUE), TRUE), TRUE)
    /\ resp = Drain(WriteHeader(NewResponse, StatusOK), gw, TRUE)
    /\ ret = NoError
    /\ applied = <<>>
    /\ walker = newObjectWalker
    /\ wpc = "new"
    /\ adv = <<>>
    /\ iter = <<>>
    /\ enc = NoEncode
    /\ calls = <<>>

\* One pass of the second request's loop over its refUpdates.
PeerSetReference ==
    /\ peer.pc = "update"
    /\ Len(peer.applied) < Len(peer.refUpdates)
    /\ LET refUpdate == peer.refUpdates[Len(peer.applied) + 1]
       IN  \E ok \in BOOLEAN :
               /\ refs' = IF ok
                          THEN SetReference(refs, refUpdate.Ref, NewHashReference(refUpdate.To))
                          ELSE refs
               /\ peer' = [peer EXCEPT !.applied = Append(@, ok)]
    /\ UNCHANGED <<objects, pc, req, conn, resp, ret, gw, walker, wpc, adv, iter, enc, refUpdates,
                   applied, scanned, before, calls>>

\* The return of the second request's handler.
PeerReturn ==
    /\ peer.pc = "update"
    /\ Len(peer.applied) = Len(peer.refUpdates)
    /\ peer' = [peer EXCEPT !.pc = "done"]
    /\ UNCHANGED <<objects, refs, pc, req, conn, resp, ret, gw, walker, wpc, adv, iter, enc,
                   refUpdates, applied, scanned, before, calls>>

NextConc ==
    \/ ReceivePackSetReference
    \/ ReceivePackReturn
    \/ PeerSetReference
    \/ PeerReturn

SpecConc == InitConc /\ [][NextConc]_vars

(***************************************************************************)
(* SpecWriter: calls on a PacketLineWriter whose underlying writer may      *)
(* fail and recover.                                                       *)
(***************************************************************************)
MaxCalls == 3

\* s repeated n times.
Repeat(c, n) == [i \in 1..n |-> c]

\* The lines handed to WriteLine: empty, short, one as large as the buffer.
WriterLines == {<<>>, NAK, Repeat("a", BufSize)}

\* A call as the caller saw it: its argument, what it returned (WriteLine and
\* WriteZeroPacketLine return nothing), and the writer after it: the error
\* it holds, the bytes it buffers, the bytes the underlying writer has taken.
Call(op, line, w, up, r) ==
    [op |-> op, s |-> line, up |-> up, ret |-> r,
     err |-> FlushError(w), buffered |-> Len(w.buf), out |-> Len(w.out)]

\* A writer on a Store as gogit.Init leaves it.
InitWriter ==
    /\ objects = {}
    /\ refs = (HEAD :> NewSymbolicReference(Master))
    /\ before = [objects |-> objects, refs |-> refs]
    /\ Idle

CallWriteLine ==
    /\ pc = "idle" /\ Len(calls) < MaxCalls
    /\ \E line \in WriterLines :
        LET w == WriteLine(gw, line, conn = "up")
        IN  /\ gw' = w
            /\ calls' = Append(calls, Call("WriteLine", line, w, conn = "up", "none"))
    /\ UNCHANGED <<objects, refs, pc, req, conn, resp, ret, walker, wpc, adv, iter, enc, refUpdates,
                   applied, scanned, before, peer>>

CallWriteZeroPacketLine ==
    /\ pc = "idle" /\ Len(calls) < MaxCalls
    /\ LET w == WriteZeroPacketLine(gw, conn = "up")
       IN  /\ gw' = w
           /\ calls' = Append(calls, Call("WriteZeroPacketLine", <<>>, w, conn = "up", "none"))
    /\ UNCHANGED <<objects, refs, pc, req, conn, resp, ret, walker, wpc, adv, iter, enc, refUpdates,
                   applied, scanned, before, peer>>

CallFlush ==
    /\ pc = "idle" /\ Len(calls) < MaxCalls
    /\ LET w == Flush(gw, conn = "up")
       IN  /\ gw' = w
           /\ calls' = Append(calls, Call("Flush", <<>>, w, conn = "up", FlushError(w)))
    /\ UNCHANGED <<objects, refs, pc, req, conn, resp, ret, walker, wpc, adv, iter, enc, refUpdates,
                   applied, scanned, before, peer>>

\* The underlying writer starts to fail, or takes writes again.
UnderlyingFails ==
    /\ pc = "idle" /\ conn = "up" /\ Len(calls) < MaxCalls
    /\ conn' = "down"
    /\ UNCHANGED <<objects, refs, pc, req, resp, ret, gw, walker, wpc, adv, iter, enc, refUpdates,
                   applied, scanned, before, calls, peer>>

UnderlyingRecovers ==
    /\ pc = "idle" /\ conn = "down" /\ Len(calls) < MaxCalls
    /\ conn' = "up"
    /\ UNCHANGED <<objects, refs, pc, req, resp, ret, gw, walker, wpc, adv, iter, enc, refUpdates,
                   applied, scanned, before, calls, peer>>

NextWriter ==
    \/ CallWriteLine
    \/ CallWriteZeroPacketLine
    \/ CallFlush
    \/ UnderlyingFails
    \/ UnderlyingRecovers

SpecWriter == InitWriter /\ [][NextWriter]_vars

(***************************************************************************)
(* SpecFrame: one WriteLine or WriteZeroPacketLine on a fresh writer, then  *)
(* Flush, for lines of the lengths at which the prefix gains a digit.       *)
(***************************************************************************)
MaxShortLine == 48

\* The largest value of four hex digits.
MaxPrefix == 65535

FrameLengths ==
    (0..MaxShortLine) \cup {250, 251, 252, BufSize - 6, BufSize - 5, MaxPrefix - 6, MaxPrefix - 5,
                            MaxPrefix - 4}

\* Lines without a newline: runs of one letter, and an advertisement line with
\* its space, NUL and capability.
FrameLines ==
    {Repeat("a", n) : n \in FrameLengths}
    \cup {HashString(C1) \o <<SP>> \o HEAD \o <<NUL>> \o SymrefCap}

WriteOneLine ==
    /\ pc = "idle" /\ calls = <<>>
    /\ \E line \in FrameLines :
        LET w == WriteLine(gw, line, conn = "up")
        IN  /\ gw' = w
            /\ calls' = Append(calls, Call("WriteLine", line, w, conn = "up", "none"))
    /\ UNCHANGED <<objects, refs, pc, req, conn, resp, ret, walker, wpc, adv, iter, enc, refUpdates,
                   applied, scanned, before, peer>>

WriteOneZeroPacketLine ==
    /\ pc = "idle" /\ calls = <<>>
    /\ LET w == WriteZeroPacketLine(gw, conn = "up")
       IN  /\ gw' = w
           /\ calls' = Append(calls, Call("WriteZeroPacketLine", <<>>, w, conn = "up", "none"))
    /\ UNCHANGED <<objects, refs, pc, req, conn, resp, ret, walker, wpc, adv, iter, enc, refUpdates,
                   applied, scanned, before, peer>>

FlushOne ==
    /\ pc = "idle" /\ Len(calls) = 1
    /\ LET w == Flush(gw, conn = "up")
       IN  /\ gw' = w
           /\ calls' = Append(calls, Call("Flush", <<>>, w, conn = "up", FlushError(w)))
    /\ UNCHANGED <<objects, refs, pc, req, conn, resp, ret, walker, wpc, adv, iter, enc, refUpdates,
                   applied, scanned, before, peer>>

NextFrame == WriteOneLine \/ WriteOneZeroPacketLine \/ FlushOne

SpecFrame == InitWriter /\ [][NextFrame]_vars

(***************************************************************************)
(* The reachable set, as the claims define it: the least set that holds    *)
(* the roots and is closed under commit->tree, commit->parents,            *)
(* tree->non-submodule entries and tag->target.                            *)
(***************************************************************************)
Roots(rs) ==
    {Reference(rs, n).hash : n \in {m \in DOMAIN rs : Reference(rs, m).type = HashReference}}

Children(h) ==
    LET obj == Object(h)
    IN  CASE obj.type = "commit" -> {obj.tree} \cup Range(obj.parents)
          [] obj.type = "tree" ->
                {obj.entries[i].hash : i \in {j \in DOMAIN obj.entries : obj.entries[j].mode # Submodule}}
          [] obj.type = "tag" -> {obj.target}
          [] OTHER -> {}

RECURSIVE Closure(_, _)
Closure(objs, set) ==
    LET next == set \cup UNION {Children(h) : h \in set \cap objs}
    IN  IF next = set THEN set ELSE Closure(objs, next)

Reachable(objs, rs) == Closure(objs, Roots(rs))

BlobModes == {Executable, Regular, Symlink}

\* The entries of tree h whose mode is in modes.
EntriesOf(h, modes) ==
    LET es == Object(h).entries
    IN  {es[i] : i \in {j \in DOMAIN es : es[j].mode \in modes}}

IsType(objs, h, types) == h \in objs /\ Object(h).type \in types

\* The hashes that the claims' reachability hands to walkObjectTree: the roots,
\* and from every reachable object its tree, parents, target and its entries
\* of directory or unlisted mode.
WalkedOf(objs, rs) ==
    LET R == Reachable(objs, rs) \cap objs
    IN  Roots(rs)
        \cup UNION {IF Object(h).type = "tree"
                    THEN {e.hash : e \in EntriesOf(h, {Dir, Deprecated})}
                    ELSE Children(h) : h \in R}

\* The hashes of the regular, executable and symlink entries of reachable trees.
LeavesOf(objs, rs) ==
    LET R == Reachable(objs, rs) \cap objs
    IN  UNION {{e.hash : e \in EntriesOf(h, BlobModes)} : h \in {t \in R : Object(t).type = "tree"}}

\* Every reachable object is present in the Store.
Complete(objs, rs) == Reachable(objs, rs) \subseteq objs

\* Entry modes agree with object types: what is walked is a commit, a tree or
\* a tag, and what a regular, executable or symlink entry names is a blob.
WellTyped(objs, rs) ==
    /\ \A h \in WalkedOf(objs, rs) \cap objs : Object(h).type # "blob"
    /\ \A h \in LeavesOf(objs, rs) \cap objs : Object(h).type = "blob"

(***************************************************************************)
(* C1.  Walker totality.                                                   *)
(***************************************************************************)
\* C1 as claimed: for every Store that holds every reachable object (commits,
\* trees, tags and blobs), walkAllRefs succeeds and its seen-set is exactly
\* the reachable set.
C1_WalkerTotality ==
    (wpc = "done" /\ Complete(objects, refs))
        => (walker.err = NoError /\ walker.seen = Reachable(objects, refs))

\* C1 as amended: the same, for the Stores in which moreover every hash the
\* walk fetches (a root, a commit's tree or parent, a tag's target, an entry
\* of directory or unlisted mode) is a commit, a tree or a tag, and every
\* regular, executable or symlink entry names a blob.
C1_WalkerTotalityWellTyped ==
    (wpc = "done" /\ Complete(objects, refs) /\ WellTyped(objects, refs))
        => (walker.err = NoError /\ walker.seen = Reachable(objects, refs))

\* A merge commit with a subdirectory, submodules and an annotated tag has
\* been walked in full.
C1_Witness ==
    /\ wpc = "done"
    /\ Complete(objects, refs) /\ WellTyped(objects, refs)
    /\ {G1, C3, C2, C1, T2, T1, B1, B2} \subseteq walker.seen

(***************************************************************************)
(* C2.  The walk as a function of the Store.                               *)
(***************************************************************************)
Outcome(w) == [ok |-> w.err = NoError, seen |-> IF w.err = NoError THEN w.seen ELSE {}]

\* C2 as claimed: for a fixed Store every walk on a fresh walker has the same
\* outcome (the verdict and, on success, the seen-set) whatever the order the
\* Store iterates its references in.
C2_WalkIsFunctionOfStore ==
    wpc = "done" =>
        \A order \in Perms(DOMAIN refs) :
            Outcome(walkAllRefs(objects, refs, newObjectWalker, order)) = Outcome(walker)

(***************************************************************************)
(* C3.  Dedup and termination.                                             *)
(***************************************************************************)
NoDuplicates(s) == \A i, j \in DOMAIN s : s[i] = s[j] => i = j

\* Every hash a Store or a reference of the model can name.
AllHashes == AllObjects \cup UNION {Children(h) : h \in AllObjects}

\* C3: in one walkAllRefs every hash is handed to GetObject at most once, so
\* the walk makes no more fetches than there are hashes and ends.
C3_FetchedAtMostOnce ==
    wpc = "done" =>
        /\ NoDuplicates(walker.fetched)
        /\ Range(walker.fetched) \subseteq walker.seen
        /\ Len(walker.fetched) <= Cardinality(AllHashes)

\* A tree shared by two walked commits, a commit that two paths reach and a
\* parent link that loops have been walked.
C3_Witness ==
    /\ wpc = "done" /\ walker.err = NoError
    /\ {C1, C2, C4, T1} \subseteq Range(walker.fetched)
    /\ Len(walker.roots) = 2

(***************************************************************************)
(* C4.  Skip rules.                                                        *)
(***************************************************************************)
FetchedTrees == {h \in Range(walker.fetched) \cap objects : Object(h).type = "tree"}

FetchedObjects == Range(walker.fetched) \cap objects

\* The hashes the walk handed to walkObjectTree.
WalkTargets ==
    Range(walker.roots)
    \cup UNION {IF Object(h).type = "tree"
                THEN {e.hash : e \in EntriesOf(h, {Dir, Deprecated})}
                ELSE Children(h) : h \in FetchedObjects}

\* The hashes the walk added for a regular, executable or symlink entry.
LeafTargets == UNION {{e.hash : e \in EntriesOf(t, BlobModes)} : t \in FetchedTrees}

\* C4 as claimed: after a walk the hash of a submodule entry is not in the
\* set, every directory entry has been fetched, and regular, executable and
\* symlink entries are in the set without having been fetched.
C4_SkipRules ==
    (wpc = "done" /\ walker.err = NoError) =>
        \A t \in FetchedTrees :
            /\ \A e \in EntriesOf(t, {Submodule}) : e.hash \notin walker.seen
            /\ \A e \in EntriesOf(t, {Dir}) : e.hash \in Range(walker.fetched)
            /\ \A e \in EntriesOf(t, BlobModes) :
                   e.hash \in walker.seen /\ e.hash \notin Range(walker.fetched)

\* C4 as amended: a submodule entry adds nothing (its hash is in the set only
\* when a root or another link of a walked object names it); after a walk
\* that succeeded every directory entry of a walked tree is in the set and
\* has been fetched unless a regular, executable or symlink entry added the
\* hash, and every such entry is in the set and was fetched only if a root or
\* a walked link names the hash too.
C4_SkipRulesByEntry ==
    wpc = "done" =>
        \A t \in FetchedTrees :
            /\ \A e \in EntriesOf(t, {Submodule}) :
                   e.hash \in walker.seen => e.hash \in WalkTargets \cup LeafTargets
            /\ walker.err = NoError =>
                   /\ \A e \in EntriesOf(t, {Dir}) :
                          /\ e.hash \in walker.seen
                          /\ e.hash \in Range(walker.fetched) \cup LeafTargets
                   /\ \A e \in EntriesOf(t, BlobModes) :
                          /\ e.hash \in walker.seen
                          /\ e.hash \in Range(walker.fetched) => e.hash \in WalkTargets

\* A tree with a subdirectory, two submodules, an executable and a symlink has
\* been walked: the subdirectory was fetched, the submodule of another
\* repository is not in the set.
C4_Witness ==
    /\ wpc = "done" /\ walker.err = NoError
    /\ T2 \in FetchedTrees /\ T1 \in FetchedTrees
    /\ S1 \notin walker.seen
    /\ B2 \in walker.seen /\ B2 \notin Range(walker.fetched)

(***************************************************************************)
(* The wire, as a client reads it.                                         *)
(***************************************************************************)
\* The frames of the NAK line and of the two unpack reports.
NakFrame == <<"0", "0", "0", "8">> \o NAK \o <<LF>>

UnpackErrFrame == <<"0", "0", "2", "2">> \o UnpackErr \o <<LF>>

UnpackOkFrame == <<"0", "0", "0", "e">> \o UnpackOk \o <<LF>>

\* p occurs in s.
Contains(s, p) == \E i \in 1..(Len(s) - Len(p) + 1) : SubSeq(s, i, i + Len(p) - 1) = p

\* All the bytes the response carries, in order.
RECURSIVE Body(_)
Body(out) == IF out = <<>> THEN <<>> ELSE Head(out).bytes \o Body(Tail(out))

UploadPack == req.path = "/git-upload-pack"

ReceivePack == req.path = "/git-receive-pack"

Discovery == req.path = "/info/refs"

\* The pack of the receive-pack request has been read, and how it went.
Decoded == ReceivePack /\ req.pack.read /\ req.pack.valid

DecodeFailed == ReceivePack /\ req.pack.read /\ ~req.pack.valid

(***************************************************************************)
(* C5.  Upload-pack sends everything.                                      *)
(***************************************************************************)
\* C5: whatever negotiation lines the request holds, the set handed to the
\* pack encoder is the reachable set over all references of the Store as it
\* is at the request (what an earlier receive-pack stored included), which
\* is the seen-set of a walk in any order; the response starts with exactly
\* one NAK frame, flushed before the pack, and holds nothing but the pack
\* after it.
C5_UploadPackSendsEverything ==
    (UploadPack /\ enc.called) =>
        /\ <<objects, refs>> = <<before.objects, before.refs>>
        /\ enc.objs = Reachable(objects, refs)
        /\ \A order \in Perms(DOMAIN refs) :
               walkAllRefs(objects, refs, newObjectWalker, order).seen = enc.objs
        /\ resp.out # <<>>
        /\ resp.out[1] = BytesEvent(NakFrame)
        /\ Len(resp.out) <= 2
        /\ \A i \in 2..Len(resp.out) : resp.out[i] = PackEvent(enc.objs)

\* An upload-pack request with a have line for the commit that an earlier
\* receive-pack stored has been answered with NAK and a pack that holds it.
C5_Witness ==
    /\ UploadPack /\ pc = "done" /\ enc.called
    /\ LineHave \in Range(req.frames)
    /\ C3 \in enc.objs
    /\ resp.out = <<BytesEvent(NakFrame), PackEvent(enc.objs)>>

(***************************************************************************)
(* C6.  Receive-pack decode failure.                                       *)
(***************************************************************************)
\* C6: when the pack fails to decode the request is over: no SetReference
\* has been called, every reference holds what it held before the request,
\* the response holds the frame of "unpack error parsing packfile" (when the
\* client is still there) and nowhere "unpack ok".
C6_DecodeFailureAppliesNothing ==
    DecodeFailed =>
        /\ pc = "done"
        /\ applied = <<>>
        /\ refs = before.refs
        /\ conn = "up" => resp.out = <<BytesEvent(UnpackErrFrame)>>
        /\ ~Contains(Body(resp.out), UnpackOk)

\* A request with well-formed ref updates and a corrupt pack, part of which
\* was stored, has ended with the unpack error on the wire.
C6_Witness ==
    /\ DecodeFailed /\ pc = "done"
    /\ Len(refUpdates) = MaxLines
    /\ objects # before.objects
    /\ resp.out = <<BytesEvent(UnpackErrFrame)>>

(***************************************************************************)
(* C7.  Receive-pack applies every update unconditionally.                 *)
(***************************************************************************)
\* The updates of the request that SetReference accepted for name.
AppliedTo(name) == {i \in DOMAIN applied : applied[i] /\ refUpdates[i].Ref = name}

\* The last of a non-empty set of indices.
Last(is) == CHOOSE i \in is : \A j \in is : j <= i

\* C7: after a pack that decoded, every RefUpdate whose SetReference
\* succeeded leaves its name a hash reference to the To of the last such
\* update of that name; From and the value held before play no part.
C7_UpdatesAppliedUnconditionally ==
    Decoded =>
        \A i \in DOMAIN applied :
            applied[i] =>
                LET name == refUpdates[i].Ref
                IN  /\ name \in DOMAIN refs
                    /\ refs[name] = NewHashReference(refUpdates[Last(AppliedTo(name))].To)

\* Two updates of one name have been applied, the second with a From that is
\* not what the name held: the name holds the To of the second.
C7_Witness ==
    /\ Decoded /\ pc = "done"
    /\ Len(applied) = 2 /\ applied[1] /\ applied[2]
    /\ refUpdates[1].Ref = refUpdates[2].Ref
    /\ refUpdates[1].To # refUpdates[2].To
    /\ refUpdates[2].From # refUpdates[1].To
    /\ refs[refUpdates[2].Ref] = NewHashReference(refUpdates[2].To)

(***************************************************************************)
(* C8.  Receive-pack partial failure.                                      *)
(***************************************************************************)
\* The references as the updates that SetReference accepted leave them.
RECURSIVE ApplyAccepted(_, _, _, _)
ApplyAccepted(rs, updates, oks, i) ==
    IF i > Len(oks) THEN rs
    ELSE ApplyAccepted(IF oks[i] THEN SetReference(rs, updates[i].Ref, NewHashReference(updates[i].To))
                       ELSE rs,
                       updates, oks, i + 1)

\* C8: a request in which a SetReference failed still ends as a success
\* (no error returned, status 200, "unpack ok" as the whole response), has
\* called SetReference for every RefUpdate, and leaves the Store's references
\* as the accepted updates, before and after the failed one, make them.
C8_FailedUpdateIsSkipped ==
    (Decoded /\ pc = "done" /\ \E i \in DOMAIN applied : ~applied[i]) =>
        /\ Len(applied) = Len(refUpdates)
        /\ refs = ApplyAccepted(before.refs, refUpdates, applied, 1)
        /\ ret = NoError
        /\ resp.status = StatusOK
        /\ resp.out = <<BytesEvent(UnpackOkFrame \o <<"0", "0", "0", "0">>)>>

\* The first of two updates failed and the second is in the Store.
C8_Witness ==
    /\ Decoded /\ pc = "done"
    /\ Len(applied) = 2 /\ ~applied[1] /\ applied[2]
    /\ refUpdates[1].Ref # refUpdates[2].Ref
    /\ refs[refUpdates[2].Ref] = NewHashReference(refUpdates[2].To)
    /\ refs # before.refs

(***************************************************************************)
(* C9.  Receive-pack validates before it mutates.                          *)
(***************************************************************************)
\* The characters of a hex field, 40 of which make a hash.
HexAlphabet == Range(HexChars) \cup Range(UpperHexChars)

IsHashField(f) == Len(f) = 2 * HashSize /\ \A i \in DOMAIN f : f[i] \in HexAlphabet

\* A ref-update line that is malformed: fewer than three space-separated
\* fields, a first or second field that is not 40 hex characters, or a NUL
\* in the third field of a line that is not the first.
MalformedLine(line, firstLine) ==
    LET spaces == {i \in DOMAIN line : line[i] = SP}
    IN  IF Cardinality(spaces) < 2 THEN TRUE
        ELSE LET s1 == CHOOSE i \in spaces : \A j \in spaces : i <= j
                 s2 == CHOOSE i \in spaces \ {s1} : \A j \in spaces \ {s1} : i <= j
             IN  \/ ~IsHashField(SubSeq(line, 1, s1 - 1))
                 \/ ~IsHashField(SubSeq(line, s1 + 1, s2 - 1))
                 \/ ~firstLine /\ \E i \in (s2 + 1)..Len(line) : line[i] = NUL

\* The frames up to the blank line hold a malformed line, or the input ends
\* before the blank line.
MalformedBody(frames) ==
    LET blanks == {i \in DOMAIN frames : frames[i] = <<>>}
        n == IF blanks = {} THEN Len(frames) + 1 ELSE CHOOSE i \in blanks : \A j \in blanks : i <= j
    IN  \/ blanks = {}
        \/ \E i \in 1..(n - 1) : MalformedLine(frames[i], i = 1)

UnknownEncoding == req.encoding \notin {"", "gzip"}

\* C9: once the handler has looked at a receive-pack request whose
\* Content-Encoding is unknown or whose ref-update lines are malformed, the
\* request is over with an error and status 500, no object is stored and no
\* reference is changed; with an unknown Content-Encoding no frame of the
\* body has been read.
C9_ValidatesBeforeMutating ==
    (ReceivePack /\ pc # "receivePack" /\ (UnknownEncoding \/ MalformedBody(req.frames))) =>
        /\ pc = "done"
        /\ ret # NoError
        /\ resp.status = StatusInternalServerError
        /\ ~req.pack.read
        /\ objects = before.objects
        /\ refs = before.refs
        /\ applied = <<>>
        /\ UnknownEncoding => scanned = 0

\* A request whose second line is short of a hex digit, after a well-formed
\* first line, has been rejected.
C9_Witness ==
    /\ ReceivePack /\ pc = "done"
    /\ Len(req.frames) >= 2
    /\ ~MalformedLine(req.frames[1], TRUE)
    /\ req.frames[2] = LineShortHash
    /\ scanned = 2
    /\ resp.status = StatusInternalServerError

(***************************************************************************)
(* C10.  Advertisement ordering.                                           *)
(***************************************************************************)
\* HEAD is in the Store and resolves to a hash.
HeadResolves == HEAD \in DOMAIN refs /\ Reference(refs, HEAD).type = HashReference

HeadLine == HashString(Reference(refs, HEAD).hash) \o <<SP>> \o HEAD

\* The bytes of the response after the service line and its flush packet,
\* less the four digits of the first advertisement line's length.
AfterServiceLine ==
    LET body == Body(resp.out)
        skip == 4 + Len(ServicePrefix \o req.service) + 1 + 4 + 4
    IN  SubSeq(body, skip + 1, Len(body))

\* C10: in a discovery response for a Store whose HEAD resolves, the first
\* advertisement line is the line of HEAD, in the list and on the wire,
\* whatever the order the Store iterated its references in.
C10_HeadLineFirst ==
    (Discovery /\ pc = "done" /\ ret = NoError /\ HeadResolves) =>
        /\ adv # <<>>
        /\ adv[1] = HeadLine
        /\ \A i \in 2..Len(adv) : adv[i] # HeadLine
        /\ conn = "up" => HasPrefix(AfterServiceLine, HeadLine \o <<NUL>>)

\* The Store iterated HEAD last of three references and the response still
\* starts with the line of HEAD.
C10_Witness ==
    /\ Discovery /\ pc = "done" /\ ret = NoError /\ HeadResolves
    /\ Len(iter) >= 3 /\ iter[Len(iter)] = HEAD
    /\ Len(adv) >= 3
    /\ HasPrefix(AfterServiceLine, HeadLine \o <<NUL>>)

(***************************************************************************)
(* C11.  Capability placement.                                             *)
(***************************************************************************)
\* The frames a client reads from the response.
Frames == ScanAll(Body(resp.out))

\* The advertisement frames: those between the flush packet that follows the
\* service line and the flush packet that ends the response.
AdvFrames == SubSeq(Frames, 3, Len(Frames) - 1)

\* The capability string of the service asked for.
CapsOf(service) == IF service = UploadPackService THEN SymrefCap ELSE <<>>

NulCount(s) == Cardinality({i \in DOMAIN s : s[i] = NUL})

\* A discovery response that was written in full.
Discovered == Discovery /\ pc = "done" /\ ret = NoError /\ conn = "up"

\* C11: in a discovery response the first advertisement frame is
\* <hash> <name>, one NUL, the capability string of the service (the symref
\* capability for upload-pack, nothing for receive-pack) and the newline; it
\* holds one NUL, and no later advertisement frame holds a NUL or the
\* capability.
C11_CapabilitiesOnFirstLineOnly ==
    Discovered =>
        /\ Len(Frames) = Len(adv) + 3
        /\ Frames[1] = ServicePrefix \o req.service \o <<LF>>
        /\ Frames[2] = <<>> /\ Frames[Len(Frames)] = <<>>
        /\ \A i \in DOMAIN AdvFrames :
               IF i = 1
               THEN /\ AdvFrames[i] = adv[1] \o <<NUL>> \o CapsOf(req.service) \o <<LF>>
                    /\ NulCount(AdvFrames[i]) = 1
               ELSE /\ AdvFrames[i] = adv[i] \o <<LF>>
                    /\ NulCount(AdvFrames[i]) = 0
                    /\ ~Contains(AdvFrames[i], SymrefCap)

\* An upload-pack discovery of three references has been answered.
C11_Witness ==
    /\ Discovered /\ req.service = UploadPackService
    /\ Len(AdvFrames) = 3
    /\ Contains(AdvFrames[1], <<NUL>> \o SymrefCap)

(***************************************************************************)
(* C12.  Advertisement contents.                                           *)
(***************************************************************************)
\* The references that are advertised: not remote-tracking, and a hash
\* reference or a symbolic reference that resolves to one.
Advertised(rs) ==
    {n \in DOMAIN rs : ~HasPrefix(n, RemotePrefix) /\ Reference(rs, n).type = HashReference}

LineOf(rs, n) == HashString(Reference(rs, n).hash) \o <<SP>> \o n

\* C12: a discovery request for a known service does not fail, and its list
\* holds exactly one line <hash> <name> for every advertised reference, the
\* name being the reference's own and the hash the one it resolves to; the
\* frames on the wire are these lines.
C12_OneLinePerResolvedReference ==
    (Discovery /\ pc = "done" /\ req.service \in {UploadPackService, ReceivePackService}) =>
        /\ ret = NoError
        /\ resp.status = StatusOK
        /\ Len(adv) = Cardinality(Advertised(refs))
        /\ Range(adv) = {LineOf(refs, n) : n \in Advertised(refs)}
        /\ conn = "up" =>
               /\ Len(AdvFrames) = Len(adv)
               /\ \A i \in DOMAIN AdvFrames : HasPrefix(AdvFrames[i], adv[i])

\* A Store with a symbolic HEAD, a branch and a remote-tracking reference
\* has been advertised: HEAD with the hash of the branch, the remote-tracking
\* reference not at all.
C12_Witness ==
    /\ Discovered
    /\ RemoteMain \in DOMAIN refs
    /\ refs[HEAD].type = SymbolicReference
    /\ adv = <<HashString(C1) \o <<SP>> \o HEAD, HashString(C1) \o <<SP>> \o Main>>

\* A symbolic HEAD that does not resolve has been skipped and the request
\* has succeeded.
C12_WitnessUnresolvable ==
    /\ Discovered
    /\ refs[HEAD].type = SymbolicReference
    /\ Reference(refs, HEAD).type # HashReference
    /\ adv = <<>>

(***************************************************************************)
(* C13.  Packet-line round-trip.                                           *)
(***************************************************************************)
\* Decoding as the claims define it: the four hex digits of the prefix are
\* read; 0000 is end-of-section; otherwise the body is the prefix less 4
\* bytes that follow (as many of them as there are).
Decode(b) ==
    LET n == ParseHex(SubSeq(b, 1, 4))
        m == IF n > Len(b) THEN Len(b) ELSE n
    IN  IF n = 0 THEN [end |-> TRUE, body |-> <<>>, rest |-> SubSeq(b, 5, Len(b))]
        ELSE [end |-> FALSE, body |-> SubSeq(b, 5, m), rest |-> SubSeq(b, m + 1, Len(b))]

\* One call on a fresh writer has been flushed to the underlying writer.
Flushed(op) == Len(calls) = 2 /\ calls[1].op = op /\ calls[2].ret = NoError

\* C13 as claimed: decoding what WriteLine(s) wrote yields s, and decoding
\* what WriteZeroPacketLine wrote yields end-of-section without a payload.
C13_RoundTrip ==
    /\ Flushed("WriteLine") =>
           /\ ~Decode(gw.out).end
           /\ Decode(gw.out).body = calls[1].s
    /\ Flushed("WriteZeroPacketLine") =>
           /\ Decode(gw.out).end
           /\ Decode(gw.out).body = <<>>

\* C13 as amended: decoding what WriteLine(s) wrote yields s followed by the
\* newline that WriteLine adds, and nothing is left over, when the frame
\* (the line and five bytes) is at most 0xffff long; for a longer line it
\* does not; decoding what WriteZeroPacketLine wrote yields end-of-section
\* without a payload.
C13_RoundTripWithNewline ==
    /\ Flushed("WriteLine") =>
           LET line == calls[1].s
               d == Decode(gw.out)
           IN  IF Len(line) + 5 <= MaxPrefix
               THEN ~d.end /\ d.body = line \o <<LF>> /\ d.rest = <<>>
               ELSE d.body # line \o <<LF>>
    /\ Flushed("WriteZeroPacketLine") =>
           /\ Decode(gw.out).end
           /\ Decode(gw.out).body = <<>>
           /\ Decode(gw.out).rest = <<>>

\* A line with a space and a NUL has been written, flushed and decoded.
C13_Witness ==
    /\ Flushed("WriteLine")
    /\ NUL \in Range(calls[1].s) /\ SP \in Range(calls[1].s)
    /\ Decode(gw.out).body = calls[1].s \o <<LF>>

(***************************************************************************)
(* C14.  Deferred-error writer.                                            *)
(***************************************************************************)
\* The bytes a call asks the writer to send.
FrameSize(c) ==
    CASE c.op = "WriteLine" -> Len(c.s) + 5
      [] c.op = "WriteZeroPacketLine" -> 4
      [] OTHER -> 0

RECURSIVE FrameSizes(_, _)
FrameSizes(cs, j) == IF j = 0 THEN 0 ELSE FrameSizes(cs, j - 1) + FrameSize(cs[j])

\* C14: WriteLine and WriteZeroPacketLine return nothing.  Once a call has
\* left the writer with an error, every later call leaves that error as it
\* is and the underlying writer with no byte more, and every later Flush
\* returns that error, whether or not the underlying writer takes writes
\* again.  A Flush that no failure precedes returns what the write to the
\* underlying writer gives: nil, with the buffer empty and every frame
\* written so far passed on, or the error of that write.
C14_FirstErrorIsKept ==
    \A j \in DOMAIN calls :
        /\ calls[j].op # "Flush" => calls[j].ret = "none"
        /\ \A i \in 1..(j - 1) :
               calls[i].err # NoError =>
                   /\ calls[j].err = calls[i].err
                   /\ calls[j].out = calls[i].out
                   /\ calls[j].op = "Flush" => calls[j].ret = calls[i].err
        /\ (calls[j].op = "Flush" /\ \A i \in 1..(j - 1) : calls[i].err = NoError) =>
               /\ calls[j].ret = calls[j].err
               /\ calls[j].up =>
                      /\ calls[j].ret = NoError
                      /\ calls[j].buffered = 0
                      /\ calls[j].out = FrameSizes(calls, j)
               /\ ~calls[j].up => (calls[j].ret # NoError <=> (j > 1 /\ calls[j - 1].buffered > 0))

\* A Flush failed, the underlying writer recovered, and the Flush after a
\* further WriteLine returned the error and wrote nothing.
C14_Witness ==
    /\ Len(calls) = 3
    /\ calls[1].op = "WriteLine" /\ calls[1].err = NoError /\ calls[1].buffered > 0
    /\ calls[2].op = "Flush" /\ calls[2].ret # NoError
    /\ calls[3].op = "Flush" /\ calls[3].up /\ calls[3].ret = calls[2].ret
    /\ calls[3].out = 0

(***************************************************************************)
(* C18.  Packet-line length prefix.                                        *)
(***************************************************************************)
\* The bytes the writer has been handed, in order: those passed on to the
\* underlying writer and those still in the buffer.
Emitted(w) == w.out \o w.buf

\* C18 as claimed: what WriteLine(s) emits is four lowercase hex digits whose
\* value is Len(s) + 5, then s, then one newline, for a line of any length.
C18_PrefixIsFourDigits ==
    (Len(calls) = 1 /\ calls[1].op = "WriteLine") =>
        LET line == calls[1].s
            e == Emitted(gw)
        IN  /\ Len(e) = Len(line) + 5
            /\ \A i \in 1..4 : e[i] \in Range(HexChars)
            /\ ParseHex(SubSeq(e, 1, 4)) = Len(line) + 5
            /\ SubSeq(e, 5, Len(e)) = line \o <<LF>>

(***************************************************************************)
(* C15.  One status per request.                                           *)
(***************************************************************************)
Paths == {"/info/refs", "/git-upload-pack", "/git-receive-pack"}

\* The response has started: a status line or a byte of the handler's.
Started == \E i \in DOMAIN resp.out : resp.out[i] # ErrorEvent

\* C15: a request that has ended has one status: 404 exactly for a path that
\* is none of the three, 500 exactly when the handler returned an error,
\* 200 otherwise.  The error page is never written after anything else: a
\* handler that returned an error has written nothing, and a flush, encode
\* or decode failure after the start of the response ends the request with
\* no error returned and the status 200.
C15_OneStatusPerRequest ==
    /\ pc = "done" =>
           /\ resp.status \in {StatusOK, StatusNotFound, StatusInternalServerError}
           /\ resp.status = StatusNotFound <=> req.path \notin Paths
           /\ resp.status = StatusInternalServerError <=> ret # NoError
           /\ (FlushError(gw) # NoError \/ DecodeFailed \/ (enc.called /\ Len(resp.out) = 1)) =>
                  ret = NoError /\ resp.status = StatusOK
    /\ \A i \in DOMAIN resp.out :
           resp.out[i] = ErrorEvent =>
               /\ Len(resp.out) = 1
               /\ resp.status \in {StatusNotFound, StatusInternalServerError}
    /\ ret # NoError => ~Started

\* A receive-pack request whose "unpack ok" could not be flushed has ended
\* with the status 200 and no error.
C15_Witness ==
    /\ pc = "done" /\ Decoded
    /\ FlushError(gw) # NoError
    /\ resp.status = StatusOK /\ ret = NoError

(***************************************************************************)
(* C17.  Missing objects and upload-pack.                                  *)
(***************************************************************************)
\* The upload-pack handler has read the request and walked the references.
Walked == UploadPack /\ pc \in {"encode", "done"} /\ req.end = "eof"

NothingWritten == resp.out \in {<<>>, <<ErrorEvent>>}

LastAccepted(updates, oks, name) ==
    LET is == {i \in DOMAIN oks : oks[i] /\ updates[i].Ref = name}
    IN  IF is = {} THEN {} ELSE {NewHashReference(updates[Last(is)].To)}

\* The references after the updates of first, then those of second.
Serial(first, second) ==
    Accepted(Accepted(before.refs, first.refUpdates, first.applied, 1),
             second.refUpdates, second.applied, 1)

ThisRequest == [refUpdates |-> refUpdates, applied |-> applied]

BothReturned == pc = "done" /\ peer.pc = "done"

\* C16: each SetReference of either request lands on its own: a reference
\* holds the To of the last accepted update of its name of one of the two
\* requests, or, when neither has one, what it held before; nothing else
\* orders the two loops, so that both serial results and results that are
\* neither are reachable (the witness).
C16_EachSetReferenceOnItsOwn ==
    \A name \in {Main, TagV1, HEAD} :
        LET mine == LastAccepted(refUpdates, applied, name)
            theirs == LastAccepted(peer.refUpdates, peer.applied, name)
        IN  IF mine \cup theirs = {}
            THEN /\ name \in DOMAIN refs <=> name \in DOMAIN before.refs
                 /\ name \in DOMAIN refs => refs[name] = before.refs[name]
            ELSE name \in DOMAIN refs /\ refs[name] \in mine \cup theirs

\* Both requests updated the same two references, every SetReference
\* succeeded, and the Store is as neither serial order leaves it: one
\* reference holds the commit of one request, the other that of the other.
C16_Witness ==
    /\ BothReturned
    /\ \A i \in 1..2 : applied[i] /\ peer.applied[i]
    /\ {refUpdates[i].Ref : i \in 1..2} = {Main, TagV1}
    /\ {peer.refUpdates[i].Ref : i \in 1..2} = {Main, TagV1}
    /\ refs[Main] # refs[TagV1]
    /\ refs # Serial(ThisRequest, peer)
    /\ refs # Serial(peer, ThisRequest)

(***************************************************************************)
(* C19.  Reference integrity across requests.                              *)
(***************************************************************************)
\* The names whose hash reference points at no object of the Store.
Dangling == {n \in DOMAIN refs : refs[n].type = HashReference /\ refs[n].hash \notin objects}

\* C19 as claimed: from a Store whose hash references all point at objects
\* it holds, every hash reference points at an object of the Store after
\* any sequence of requests, updates to the zero hash or to a hash that the
\* pack did not bring included.
C19_ReferencesStayIntact == pc \in {"idle", "done"} => Dangling = {}

(***************************************************************************)
(* C20.  What "unpack ok" tells the client.                                *)
(***************************************************************************)
\* "unpack ok" has reached the client.
UnpackOkSent == Contains(Body(resp.out), UnpackOkFrame)

\* Every parsed RefUpdate has been handed to SetReference.
AllHanded == Len(applied) = Len(refUpdates)

\* C20 as claimed: once "unpack ok" has been flushed every parsed RefUpdate
\* has been applied, and a failed flush does not leave the objects of the
\* pack stored with the updates dropped.
C20_UnpackOkMeansVisible ==
    Decoded =>
        /\ UnpackOkSent => AllHanded /\ refs = Accepted(before.refs, refUpdates, [i \in DOMAIN refUpdates |-> TRUE], 1)
        /\ (FlushError(gw) # NoError /\ refUpdates # <<>>) =>
               ~(objects # before.objects /\ refs = before.refs)

\* C20: "unpack ok" is flushed after the objects of the pack are stored and
\* before the first SetReference: the objects are in the Store whether the
\* flush succeeds or not; when it fails the handler returns with no update
\* handed to SetReference; when it succeeds the status is with the client
\* while the references are those before the request changed by the updates
\* handed over so far that SetReference accepted.
C20_UnpackOkBeforeUpdates ==
    Decoded =>
        /\ objects = before.objects \cup Unpacked(req.pack, Len(req.pack.objs))
        /\ refs = Accepted(before.refs, refUpdates, applied, 1)
        /\ IF FlushError(gw) # NoError
           THEN pc = "done" /\ applied = <<>> /\ ~UnpackOkSent
           ELSE UnpackOkSent

\* "unpack ok" is with the client, the objects of the pack are stored, and
\* none of the parsed updates has been applied yet.
C20_Witness ==
    /\ Decoded
    /\ pc = "update"
    /\ UnpackOkSent
    /\ refUpdates # <<>>
    /\ applied = <<>>
    /\ refs = before.refs
    /\ objects # before.objects

\* The flush of "unpack ok" failed: objects stored, updates dropped.
C20_WitnessFlushFailed ==
    /\ Decoded
    /\ pc = "done"
    /\ FlushError(gw) # NoError
    /\ refUpdates # <<>>
    /\ refs = before.refs
    /\ objects # before.objects

====
